---- MODULE Spec2Model ----
(***************************************************************************)
(* LuckyDrop-Bot: the pot lifecycle (create, ticket purchase, close,       *)
(* reveal), the wallet and the payout ledger, as the asyncio tasks of the  *)
(* bot execute them against the MongoDB collections.                       *)
(*                                                                         *)
(* Every `await` of a database call is one step: the tasks (the scheduler  *)
(* loop, the operator's command handler, the startup recovery, one         *)
(* purchase handler per user) interleave at these points.  Money is        *)
(* counted in paise (1/100 rupee), time in minutes since midnight IST of   *)
(* day 0.  A definition introduced as "variant" is a faulty version of the *)
(* definition after it, kept to see that a property depends on it.         *)
(***************************************************************************)
EXTENDS Integers, Sequences, FiniteSets, Bags, TLC

\* ---------------------------------------------------------------- bounds
NumUsers == 2
\* tickets generated per pot: max_users of create_pot, scaled down from 30
PoolSize == 2
\* pot documents inserted in an execution
MaxPots == 2
\* tickets generated for a pot /openpot creates: its max_users, scaled down
\* from 30; fewer than there are buyers, as 30 are
OpenpotPool == 1
\* days the clock of the timed specifications tells apart; later days are
\* told from the last one only by what they leave in the collections
MaxDays == 2
MaxCrashes == 1
\* wallet operations issued in an execution of the ledger specification
MaxOps == 3
\* keyboards of one payout on display at a time (one per /payouts listing)
MaxKeyboards == 2
\* failures of a storage operation, and of a notification, in an execution
MaxFaults == 1
\* largest participant count the prize table is evaluated for
MaxCount == 40

\* ------------------------------------------------------ program constants
DEFAULT_POT_START_HOUR == 17
DEFAULT_POT_END_HOUR == 19
DEFAULT_TICKET_PRICE == 5000
REVEAL_DELAY_MINUTES == 10
FULL_POT == 30
SCALE_DIVISOR == 30
BASE_1ST == 500
BASE_2ND == 200
BASE_3RD == 100
USER_ID_TO_CLEAR == 1
\* /openpot: the pot ends this many hours after the command
OPENPOT_HOURS == 2
\* the scheduler's sleeps, in minutes
SLEEP_AFTER_CLOSE == 1
SLEEP_AFTER_REVEAL == 60
SLEEP_AFTER_CREATE == 10
SLEEP_POLL == 1
SLEEP_MIN == 1

Users == 1..NumUsers
PotIds == 1..MaxPots
NoPot == 0
\* ticket codes: random 6-digit strings in the code, interchangeable tokens here
Codes == 1..(MaxPots * PoolSize)
NoCode == 0
\* referred_by of a user nobody referred: None
NoUser == 0
Tasks == {"sched", "admin", "startup"}
\* the smallest bonus button, Rs 10
BonusOptions_10 == 1000
BonusOptions == {0, BonusOptions_10, 2000, 3000}
Live == {"open", "closed", "revealed"}
\* upi_id of a user document: None until /setupi, then the id the user confirmed
PyNone == "None"
UpiIds == {"name@bank"}
\* the upi_id the reminder query selects the payout documents by
NOT_SET == "Not set"

VARIABLES
    now,          \* wall clock, minutes
    pots,         \* db.pots, by _id; status "none": not yet inserted, "deleted": deleted
    tickets,      \* db.tickets: set of [pot_id, code]
    users,        \* db.users, by telegram_id
    payouts,      \* db.payouts: bag of payout documents
    h,            \* per user: the purchase conversation (FSM state and handler locals)
    task,         \* the scheduler loop, the operator's handler, the startup recovery:
                  \* position and locals
    crashes,      \* process restarts so far
    refundTotal,  \* history: paise credited to real_balance by the refund path, per pot and user
    closeNotices, \* history: close announcements sent by close_pot_and_distribute_prizes, per pot
    prize,        \* the prize computation on its own: [c, stage, prizes]
    ledger,       \* the wallet operations on their own: those still to be applied, and
                  \* history: the sum of the deltas applied, per user
    buttons,      \* the Mark Paid / Mark Failed keyboards on display in the operator's chat
    faults,       \* history: storage operations and notifications that have failed
    h2            \* per user: the handler of a second click on a payment button, running
                  \* beside the first

vars == <<now, pots, tickets, users, payouts, h, task, crashes, refundTotal,
          closeNotices, prize, ledger, buttons, faults, h2>>
dbVars == <<pots, tickets, users, payouts>>
auxVars == <<ledger, buttons, faults, h2>>

\* ---------------------------------------------------------------- helpers
Min(a, b) == IF a <= b THEN a ELSE b

DayOf(t) == t \div 1440

PotOpenTime(day) == day * 1440 + DEFAULT_POT_START_HOUR * 60

PotEndTime(day) == day * 1440 + DEFAULT_POT_END_HOUR * 60

EmptyPot(st) ==
    [status |-> st, date |-> 0, end_time |-> 0, max_users |-> 0, ticket_price |-> 0,
     participants |-> <<>>, total_tickets |-> 0, winners |-> <<>>]

\* a pot document as create_pot builds it
NewPot(day, endTime, maxUsers, price) ==
    [status |-> "open", date |-> day, end_time |-> endTime, max_users |-> maxUsers,
     ticket_price |-> price, participants |-> <<>>, total_tickets |-> 0,
     winners |-> <<>>]

Exists(p) == p \in PotIds /\ pots[p].status \in Live

\* the documents find_one({"date": today, "status": {"$in": [...]}}) can return
PotsOfDate(day) == {p \in PotIds : Exists(p) /\ pots[p].date = day}

\* get_current_pot: the pot of today's date, or None
get_current_pot ==
    IF PotsOfDate(DayOf(now)) = {} THEN NoPot
    ELSE CHOOSE p \in PotsOfDate(DayOf(now)) : TRUE

\* the _id insert_one gives the next pot document
NextPotId ==
    IF \E p \in PotIds : pots[p].status = "none"
    THEN CHOOSE p \in PotIds : pots[p].status = "none" /\
                               \A q \in PotIds : pots[q].status = "none" => p <= q
    ELSE NoPot

ParticipantUsers(p) == {pots[p].participants[i].telegram_id : i \in DOMAIN pots[p].participants}

ParticipantCodes(p) == {pots[p].participants[i].ticket_code : i \in DOMAIN pots[p].participants}

IdleHandler == [pc |-> "idle", code |-> NoCode, pot |-> NoPot, real_needed |-> 0,
                bonus_to_use |-> 0]

IdleTask == [pc |-> "idle", pot |-> NoPot, snap |-> EmptyPot("none"), n |-> 0,
             order |-> <<>>, i |-> 0, day |-> 0, end |-> 0, nap |-> 0]

\* aiogram starts polling (user and operator handlers) only once on_startup
\* has returned, that is after the recovery scan
Polling == task["startup"].pc = "idle"

\* the sleep that ends the scheduler's iteration, by the call it returns from
NapAfter(pc) ==
    CASE pc \in {"close_read", "close_write"} -> SLEEP_AFTER_CLOSE
      [] pc = "insert_tickets" -> SLEEP_AFTER_CREATE
      [] pc = "set_revealed" -> SLEEP_AFTER_REVEAL
      [] OTHER -> 0

\* where a task's operation returns to: the scheduler to its loop (the sleep
\* that ends the iteration, nap minutes), the operator's handler to the next
\* command
Return(t) ==
    IF t = "sched" THEN [IdleTask EXCEPT !.nap = NapAfter(task[t].pc)] ELSE IdleTask

\* ------------------------------------------------------------ wallet ledger
\* variant: a $set of balances computed from a stale copy of the document, the
\* one the user was registered with
update_user_balance_ReadModifyWrite(us, u, real_amount, bonus_amount) ==
    IF (real_amount = 0 /\ bonus_amount = 0) \/ ~us[u].exists THEN us
    ELSE [us EXCEPT ![u].real_balance = DEFAULT_TICKET_PRICE + real_amount,
                    ![u].bonus_balance = 0 + bonus_amount]

\* a user document as create_user writes it, after recharges of real_balance
NewUser(real_balance, referrer_id) ==
    [exists |-> TRUE, real_balance |-> real_balance, bonus_balance |-> 0,
     last_ticket_code |-> NoCode, upi_id |-> PyNone, referred_by |-> referrer_id,
     referred_users_tickets |-> <<>>, referral_count |-> 0]

\* update_user_balance: one $inc on the user document; nothing when the user
\* document is missing or both amounts are 0
update_user_balance(us, u, real_amount, bonus_amount) ==
    IF (real_amount = 0 /\ bonus_amount = 0) \/ ~us[u].exists THEN us
    ELSE [us EXCEPT ![u].real_balance = @ + real_amount,
                    ![u].bonus_balance = @ + bonus_amount]

\* ------------------------------------------------------------- ticket pool
\* variant: the code may already be sold
ClaimFilter_NoCodeCheck(p, u, c) ==
    /\ Exists(p)
    /\ pots[p].status = "open"
    /\ u \notin ParticipantUsers(p)

\* variant: the pot need not be open
ClaimFilter_NoStatusCheck(p, u, c) ==
    /\ Exists(p)
    /\ c \notin ParticipantCodes(p)
    /\ u \notin ParticipantUsers(p)

\* the filter of purchase_ticket_atomically's update_one
ClaimFilter(p, u, c) ==
    /\ Exists(p)
    /\ pots[p].status = "open"
    /\ c \notin ParticipantCodes(p)
    /\ u \notin ParticipantUsers(p)

\* variant: the $push without the filter, as add_user_to_pot does it
purchase_ticket_atomically_Unguarded(p, u, c) ==
    IF Exists(p)
    THEN [pots EXCEPT ![p].participants = Append(@, [telegram_id |-> u, ticket_code |-> c]),
                      ![p].total_tickets = @ + 1]
    ELSE pots

\* purchase_ticket_atomically: the conditional $push/$inc, one atomic update
purchase_ticket_atomically(p, u, c) ==
    IF ClaimFilter(p, u, c)
    THEN [pots EXCEPT ![p].participants = Append(@, [telegram_id |-> u, ticket_code |-> c]),
                      ![p].total_tickets = @ + 1]
    ELSE pots

\* --------------------------------------------------------- purchase handlers
\* /buyticket and the ticket button: the pot of today is open, the user
\* registered and not yet in it, the total balance covers the price; the code is
\* one of a keyboard the user was shown (any stored ticket: keyboards of earlier
\* pots stay clickable)
SelectTicket(u, c) ==
    /\ Polling
    /\ h[u].pc = "idle"
    /\ users[u].exists
    /\ get_current_pot # NoPot
    /\ pots[get_current_pot].status = "open"
    /\ u \notin ParticipantUsers(get_current_pot)
    /\ \E tk \in tickets : tk.code = c
    /\ users[u].real_balance + users[u].bonus_balance >= pots[get_current_pot].ticket_price
    /\ h' = [h EXCEPT ![u] = [IdleHandler EXCEPT !.pc = "choosing_bonus", !.code = c]]
    /\ UNCHANGED <<now, dbVars, task, crashes, refundTotal, closeNotices, prize, auxVars>>

\* process_bonus_selection_and_buy up to the claim: reads the user and today's
\* pot, computes the split, refuses when the real balance does not cover it
BuyRead(u, sel) ==
    /\ Polling
    /\ h[u].pc = "choosing_bonus"
    /\ users[u].exists
    /\ get_current_pot # NoPot
    /\ LET p == get_current_pot
           bonus == Min(sel, users[u].bonus_balance)
           need == pots[p].ticket_price - bonus
       IN  h' = [h EXCEPT ![u] =
                    IF users[u].real_balance < need THEN IdleHandler
                    ELSE [@ EXCEPT !.pc = "claim", !.pot = p, !.real_needed = need,
                                   !.bonus_to_use = bonus]]
    /\ UNCHANGED <<now, dbVars, task, crashes, refundTotal, closeNotices, prize, auxVars>>

\* variant: the price is taken before the claim is known to have succeeded,
\* and is not given back when it has failed
BuyClaim_DebitOnFailure(u) ==
    /\ h[u].pc = "claim"
    /\ LET p == h[u].pot
           c == h[u].code
           ok == ClaimFilter(p, u, c)
       IN  /\ pots' = purchase_ticket_atomically(p, u, c)
           /\ users' = IF ok THEN users
                        ELSE update_user_balance(users, u, -h[u].real_needed,
                                                 -h[u].bonus_to_use)
           /\ h' = [h EXCEPT ![u] =
                      IF ok THEN [@ EXCEPT !.pc = "debit"] ELSE IdleHandler]
    /\ UNCHANGED <<now, tickets, payouts, task, crashes, refundTotal,
                   closeNotices, prize, auxVars>>

\* the claim itself; on failure the conversation is cleared
BuyClaim(u) ==
    /\ h[u].pc = "claim"
    /\ LET p == h[u].pot
           c == h[u].code
           ok == ClaimFilter(p, u, c)
       IN  /\ pots' = purchase_ticket_atomically(p, u, c)
           /\ h' = [h EXCEPT ![u] =
                      IF ok THEN [@ EXCEPT !.pc = "debit"] ELSE IdleHandler]
    /\ UNCHANGED <<now, tickets, users, payouts, task, crashes, refundTotal,
                   closeNotices, prize, auxVars>>

\* the debit and the rest of the handler (update_user_ticket, state.clear)
BuyDebit(u) ==
    /\ h[u].pc = "debit"
    /\ users' = [update_user_balance(users, u, -h[u].real_needed, -h[u].bonus_to_use)
                    EXCEPT ![u].last_ticket_code =
                        IF users[u].exists THEN h[u].code ELSE @]
    /\ h' = [h EXCEPT ![u] = IF users[u].exists /\ users[u].referred_by # NoUser
                              THEN [@ EXCEPT !.pc = "ref_read"] ELSE IdleHandler]
    /\ UNCHANGED <<now, pots, tickets, payouts, task, crashes, refundTotal,
                   closeNotices, prize, auxVars>>

\* the referral credit: one update_one on the referrer's document, $inc of
\* bonus_balance and referral_count and $push of the buyer's id
ReferralUpdate(us, r, u) ==
    IF us[r].exists
    THEN [us EXCEPT ![r].bonus_balance = @ + BonusOptions_10,
                    ![r].referral_count = @ + 1,
                    ![r].referred_users_tickets = Append(@, u)]
    ELSE us

\* the buyer is in the list of those the referrer has been credited for
Credited(r, u) ==
    \E i \in DOMAIN users[r].referred_users_tickets :
        users[r].referred_users_tickets[i] = u

\* the handler of a referred buyer, after the debit: get_user of the referrer
\* and the test of the list
RefRead(u) ==
    /\ h[u].pc = "ref_read"
    /\ LET r == users[u].referred_by
       IN  h' = [h EXCEPT ![u] = IF users[r].exists /\ ~Credited(r, u)
                                  THEN [@ EXCEPT !.pc = "ref_credit"]
                                  ELSE IdleHandler]
    /\ UNCHANGED <<now, dbVars, task, crashes, refundTotal, closeNotices, prize, auxVars>>

\* the credit, and the rest of the handler
RefCredit(u) ==
    /\ h[u].pc = "ref_credit"
    /\ users' = ReferralUpdate(users, users[u].referred_by, u)
    /\ h' = [h EXCEPT ![u] = IdleHandler]
    /\ UNCHANGED <<now, pots, tickets, payouts, task, crashes, refundTotal,
                   closeNotices, prize, auxVars>>

\* A second click on a payment button while the handler of the first is
\* running: the FSM state is CHOOSING_BONUS until that handler ends, so
\* process_bonus_selection_and_buy is entered again with the same chosen code;
\* it reads the user and today's pot for itself
DoubleRead(u, sel) ==
    /\ Polling
    /\ h[u].pc \in {"claim", "debit", "ref_read", "ref_credit"}
    /\ h2[u].pc = "idle"
    /\ users[u].exists
    /\ get_current_pot # NoPot
    /\ LET p == get_current_pot
           bonus == Min(sel, users[u].bonus_balance)
           need == pots[p].ticket_price - bonus
       IN  /\ users[u].real_balance >= need
           /\ h2' = [h2 EXCEPT ![u] =
                       [IdleHandler EXCEPT !.pc = "claim", !.code = h[u].code, !.pot = p,
                                           !.real_needed = need, !.bonus_to_use = bonus]]
    /\ UNCHANGED <<now, dbVars, h, task, crashes, refundTotal, closeNotices, prize,
                   ledger, buttons, faults>>

\* the second handler's claim
DoubleClaim(u) ==
    /\ h2[u].pc = "claim"
    /\ pots' = purchase_ticket_atomically(h2[u].pot, u, h2[u].code)
    /\ h2' = [h2 EXCEPT ![u] =
                IF ClaimFilter(h2[u].pot, u, h2[u].code) THEN [@ EXCEPT !.pc = "debit"]
                ELSE IdleHandler]
    /\ UNCHANGED <<now, tickets, users, payouts, h, task, crashes, refundTotal,
                   closeNotices, prize, ledger, buttons, faults>>

\* the second handler's debit
DoubleDebit(u) ==
    /\ h2[u].pc = "debit"
    /\ users' = [update_user_balance(users, u, -h2[u].real_needed, -h2[u].bonus_to_use)
                    EXCEPT ![u].last_ticket_code =
                        IF users[u].exists THEN h2[u].code ELSE @]
    /\ h2' = [h2 EXCEPT ![u] = IF users[u].exists /\ users[u].referred_by # NoUser
                                THEN [@ EXCEPT !.pc = "ref_read"] ELSE IdleHandler]
    /\ UNCHANGED <<now, pots, tickets, payouts, h, task, crashes, refundTotal,
                   closeNotices, prize, ledger, buttons, faults>>

\* the second handler's look at the referrer
DoubleRefRead(u) ==
    /\ h2[u].pc = "ref_read"
    /\ LET r == users[u].referred_by
       IN  h2' = [h2 EXCEPT ![u] = IF users[r].exists /\ ~Credited(r, u)
                                    THEN [@ EXCEPT !.pc = "ref_credit"]
                                    ELSE IdleHandler]
    /\ UNCHANGED <<now, dbVars, h, task, crashes, refundTotal, closeNotices, prize,
                   ledger, buttons, faults>>

\* the second handler's credit
DoubleRefCredit(u) ==
    /\ h2[u].pc = "ref_credit"
    /\ users' = ReferralUpdate(users, users[u].referred_by, u)
    /\ h2' = [h2 EXCEPT ![u] = IdleHandler]
    /\ UNCHANGED <<now, pots, tickets, payouts, h, task, crashes, refundTotal,
                   closeNotices, prize, ledger, buttons, faults>>

\* the buyer of the specification with second clicks
Clicker == CHOOSE u \in Users : TRUE

\* one buyer, whose clicks on a payment button may come twice
DoubleNext ==
    \/ \E c \in Codes : SelectTicket(Clicker, c)
    \/ \E sel \in BonusOptions : BuyRead(Clicker, sel)
    \/ BuyClaim(Clicker)
    \/ BuyDebit(Clicker)
    \/ \E sel \in BonusOptions : DoubleRead(Clicker, sel)
    \/ DoubleClaim(Clicker)
    \/ DoubleDebit(Clicker)

\* what the buyer is told after the claim: purchase_ticket_atomically returns
\* whether a document was modified, and the handler has one message for False
ClaimReply(ok) == IF ok THEN "Purchased" ELSE "AlreadySold"

UserNext ==
    \E u \in Users :
        \/ \E c \in Codes : SelectTicket(u, c)
        \/ \E sel \in BonusOptions : BuyRead(u, sel)
        \/ BuyClaim(u)
        \/ BuyDebit(u)

\* -------------------------------------------------------------- prize engine
\* Python's round(x, 2) of the exact quotient num/den, in paise (round half to
\* even; no prize of the table is ever a tie, and the float error of
\* base * (c / 30.0) is far below the distance to the nearest tie)
RoundPaise(num, den) ==
    LET q == num \div den
        r == num % den
    IN  IF 2 * r < den THEN q
        ELSE IF 2 * r > den THEN q + 1
        ELSE IF q % 2 = 0 THEN q ELSE q + 1

\* variant: the scaling factor upside down, 30 / c instead of c / 30
ScaledPrize_Inverted(base, c) ==
    IF c >= FULL_POT THEN base * 100
    ELSE IF c = 0 THEN 0
    ELSE RoundPaise(base * 100 * SCALE_DIVISOR, c)

\* variant: the scaled prize cut off after two decimals instead of rounded
ScaledPrize_Floor(base, c) ==
    IF c >= FULL_POT THEN base * 100
    ELSE (base * 100 * c) \div SCALE_DIVISOR

\* prizes[rank] of process_pot_revelation for c participants, in paise
ScaledPrize(base, c) ==
    IF c >= FULL_POT THEN base * 100
    ELSE RoundPaise(base * 100 * c, SCALE_DIVISOR)

Prizes(c) == [r \in {"1st", "2nd", "3rd"} |->
                ScaledPrize(CASE r = "1st" -> BASE_1ST
                              [] r = "2nd" -> BASE_2ND
                              [] OTHER -> BASE_3RD, c)]

\* variant: two participants share one prize, only a 1st is awarded
WinnersData_TwoGetOne(shuffled, c) ==
    LET w(r, k) == [rank |-> r, prize |-> Prizes(c)[r], winner_obj |-> shuffled[k]]
    IN  IF c >= 3 THEN <<w("3rd", 1), w("2nd", 2), w("1st", 3)>>
        ELSE IF c >= 1 THEN <<w("1st", 1)>>
        ELSE <<>>

\* variant: the ranks are given in the order of the draw, the first popped
\* entry is 1st
WinnersData_DrawOrder(shuffled, c) ==
    LET w(r, k) == [rank |-> r, prize |-> Prizes(c)[r], winner_obj |-> shuffled[k]]
    IN  IF c >= 3 THEN <<w("3rd", 3), w("2nd", 2), w("1st", 1)>>
        ELSE IF c = 2 THEN <<w("2nd", 2), w("1st", 1)>>
        ELSE IF c = 1 THEN <<w("1st", 1)>>
        ELSE <<>>

\* winners_data_for_reveal: the shuffled list is popped from the front, the
\* first popped entry is given the lowest rank awarded
WinnersData(shuffled, c) ==
    LET w(r, k) == [rank |-> r, prize |-> Prizes(c)[r], winner_obj |-> shuffled[k]]
    IN  IF c >= 3 THEN <<w("3rd", 1), w("2nd", 2), w("1st", 3)>>
        ELSE IF c = 2 THEN <<w("2nd", 1), w("1st", 2)>>
        ELSE IF c = 1 THEN <<w("1st", 1)>>
        ELSE <<>>

\* variant: the winners are drawn one by one from the whole list, a
\* participant may be drawn again
Draws_WithReplacement(parts) ==
    LET c == Len(parts)
        k == Min(3, c)
    IN  {[j \in 1..k |-> parts[f[j]]] : f \in [1..k -> 1..c]}

\* random.shuffle: every order of the participants; only the entries popped
\* (the first min(3, c)) are kept
Draws(parts) ==
    LET c == Len(parts)
        k == Min(3, c)
    IN  {[j \in 1..k |-> parts[f[j]]] :
            f \in {g \in [1..k -> 1..c] : \A a, b \in 1..k : a # b => g[a] # g[b]}}

\* final_winners_sorted_for_db: one entry per winner, sorted 1st, 2nd, 3rd
FinalWinners(order) ==
    [j \in 1..Len(order) |->
        LET e == order[Len(order) + 1 - j]
        IN  [rank |-> e.rank, telegram_id |-> e.winner_obj.telegram_id,
             ticket_code |-> e.winner_obj.ticket_code, prize |-> e.prize]]

\* ------------------------------------------------------------- pot documents
\* update_pot_status: $set by _id, whatever the stored status
update_pot_status(ps, p, st) ==
    IF ps[p].status \in Live THEN [ps EXCEPT ![p].status = st] ELSE ps

\* set_pot_winners: $set by _id
set_pot_winners(ps, p, winners) ==
    IF ps[p].status \in Live THEN [ps EXCEPT ![p].winners = winners] ELSE ps

\* add_payout_history: one more document in db.payouts
add_payout_history(user_id, pot_id, amount, status, upi_id) ==
    payouts (+) SetToBag({[user_telegram_id |-> user_id, pot_id |-> pot_id,
                           amount |-> amount, status |-> status, upi_id |-> upi_id]})

\* winner_upi_id: the upi_id field of the winner's user document, "Not set"
\* when there is no such document
winner_upi_id(u) ==
    IF users[u].exists THEN users[u].upi_id ELSE NOT_SET

\* the query of send_payout_reminders: the payouts whose winner is reminded
winners_to_remind ==
    {d \in BagToSet(payouts) : d.status = "PENDING" /\ d.upi_id = NOT_SET}

\* the codes create_pot generates for a pot: max_users fresh codes
NewCodes(p, maxUsers) == ((p - 1) * PoolSize + 1)..((p - 1) * PoolSize + maxUsers)

\* ------------------------------------------------------------------- create
\* variant: db.pots without the unique index on date
InsertPot_NoUniqueIndex(t) ==
    /\ task[t].pc = "insert_pot"
    /\ NextPotId # NoPot
    /\ pots' = [pots EXCEPT ![NextPotId] =
                  NewPot(task[t].day, task[t].end, task[t].n, DEFAULT_TICKET_PRICE)]
    /\ task' = [task EXCEPT ![t].pc = "insert_tickets", ![t].pot = NextPotId]
    /\ UNCHANGED <<now, tickets, users, payouts, h, crashes, refundTotal,
                   closeNotices, prize, auxVars>>

\* create_pot, first await: insert_one into db.pots; the unique index on date
\* refuses a second pot of the date (the exception ends the scheduler task, or
\* the operator's handler)
InsertPot(t) ==
    /\ task[t].pc = "insert_pot"
    /\ IF PotsOfDate(task[t].day) # {}
       THEN /\ task' = [task EXCEPT ![t] =
                          IF t = "sched" THEN [IdleTask EXCEPT !.pc = "dead"]
                          ELSE Return(t)]
            /\ pots' = pots
       ELSE /\ NextPotId # NoPot
            /\ pots' = [pots EXCEPT ![NextPotId] =
                          NewPot(task[t].day, task[t].end, task[t].n, DEFAULT_TICKET_PRICE)]
            /\ task' = [task EXCEPT ![t].pc = "insert_tickets", ![t].pot = NextPotId]
    /\ UNCHANGED <<now, tickets, users, payouts, h, crashes, refundTotal,
                   closeNotices, prize, auxVars>>

\* create_pot, second await: insert_many of the pot's tickets
InsertTickets(t) ==
    /\ task[t].pc = "insert_tickets"
    /\ tickets' = tickets \cup {[pot_id |-> task[t].pot, code |-> c] : c \in NewCodes(task[t].pot, task[t].n)}
    /\ task' = [task EXCEPT ![t] = Return(t)]
    /\ UNCHANGED <<now, pots, users, payouts, h, crashes, refundTotal, closeNotices, prize, auxVars>>

\* -------------------------------------------------------------------- close
\* variant: close goes on whatever the status read
CloseRead_NoStatusCheck(t) ==
    /\ task[t].pc = "close_read"
    /\ LET p == task[t].pot
       IN  task' = [task EXCEPT ![t] =
                      IF ~Exists(p) THEN Return(t)
                      ELSE [@ EXCEPT !.pc = "close_write",
                                     !.n = Len(pots[p].participants)]]
    /\ UNCHANGED <<now, dbVars, h, crashes, refundTotal, closeNotices, prize, auxVars>>

\* close_pot_and_distribute_prizes, the find_one and the status test
CloseRead(t) ==
    /\ task[t].pc = "close_read"
    /\ LET p == task[t].pot
       IN  task' = [task EXCEPT ![t] =
                      IF ~Exists(p) THEN Return(t)
                      ELSE IF pots[p].status # "open" THEN Return(t)
                      ELSE [@ EXCEPT !.pc = "close_write",
                                     !.n = Len(pots[p].participants)]]
    /\ UNCHANGED <<now, dbVars, h, crashes, refundTotal, closeNotices, prize, auxVars>>

\* close_pot_and_distribute_prizes, the status write and the announcements
CloseWrite(t) ==
    /\ task[t].pc = "close_write"
    /\ pots' = update_pot_status(pots, task[t].pot, "closed")
    /\ closeNotices' = [closeNotices EXCEPT ![task[t].pot] = @ + 1]
    /\ task' = [task EXCEPT ![t] = Return(t)]
    /\ UNCHANGED <<now, tickets, users, payouts, h, crashes, refundTotal, prize, auxVars>>

\* ------------------------------------------------------------------- reveal
\* variant: fewer than 2 participants are marked revealed without a refund
RevealBegin_SkipRefund(t, p) ==
    LET snap == pots[p]
        c == Len(snap.participants)
        start == [IdleTask EXCEPT !.pot = p, !.snap = snap, !.n = c, !.i = 1]
    IN  IF snap.status = "revealed"
        THEN task' = [task EXCEPT ![t] = Return(t)]
        ELSE IF c < 2
        THEN task' = [task EXCEPT ![t] = [start EXCEPT !.pc = "set_revealed"]]
        ELSE \E d \in Draws(snap.participants) :
                task' = [task EXCEPT ![t] =
                    [start EXCEPT !.pc = "payout", !.order = WinnersData(d, c)]]

\* process_pot_revelation up to its first await, on the pot document the caller
\* has just read: the status test, the branch on the count, the shuffle
RevealBegin(t, p) ==
    LET snap == pots[p]
        c == Len(snap.participants)
        start == [IdleTask EXCEPT !.pot = p, !.snap = snap, !.n = c, !.i = 1]
    IN  IF snap.status = "revealed"
        THEN task' = [task EXCEPT ![t] = Return(t)]
        ELSE IF c < 2
        THEN task' = [task EXCEPT ![t] =
                [start EXCEPT !.pc = IF c = 0 THEN "set_revealed" ELSE "refund"]]
        ELSE \E d \in Draws(snap.participants) :
                task' = [task EXCEPT ![t] =
                    [start EXCEPT !.pc = "payout", !.order = WinnersData(d, c)]]

\* the refund loop, one participant: get_user, update_user_balance
RefundStep(t) ==
    /\ task[t].pc = "refund"
    /\ LET u == task[t].snap.participants[task[t].i].telegram_id
       IN  /\ users' = update_user_balance(users, u, task[t].snap.ticket_price, 0)
           /\ refundTotal' = [refundTotal EXCEPT ![task[t].pot][u] =
                                @ + users'[u].real_balance - users[u].real_balance]
    /\ task' = [task EXCEPT ![t].i = @ + 1,
                            ![t].pc = IF task[t].i >= task[t].n THEN "set_revealed"
                                      ELSE "refund"]
    /\ UNCHANGED <<now, pots, tickets, payouts, h, crashes, closeNotices, prize, auxVars>>

\* variant: the prize is also credited to the winner's real balance
PayoutStep_CreditsWallet(t) ==
    /\ task[t].pc = "payout"
    /\ LET e == task[t].order[task[t].i]
       IN  /\ payouts' = add_payout_history(e.winner_obj.telegram_id, task[t].pot,
                                            e.prize, "PENDING",
                                            winner_upi_id(e.winner_obj.telegram_id))
           /\ users' = update_user_balance(users, e.winner_obj.telegram_id, e.prize, 0)
    /\ task' = [task EXCEPT ![t].i = @ + 1,
                            ![t].pc = IF task[t].i >= Len(task[t].order)
                                      THEN "set_winners" ELSE "payout"]
    /\ UNCHANGED <<now, pots, tickets, h, crashes, refundTotal, closeNotices, prize, auxVars>>

\* the winner loop, one winner: add_payout_history
PayoutStep(t) ==
    /\ task[t].pc = "payout"
    /\ LET e == task[t].order[task[t].i]
       IN  payouts' = add_payout_history(e.winner_obj.telegram_id, task[t].pot,
                                         e.prize, "PENDING",
                                         winner_upi_id(e.winner_obj.telegram_id))
    /\ task' = [task EXCEPT ![t].i = @ + 1,
                            ![t].pc = IF task[t].i >= Len(task[t].order)
                                      THEN "set_winners" ELSE "payout"]
    /\ UNCHANGED <<now, pots, tickets, users, h, crashes, refundTotal, closeNotices, prize, auxVars>>

SetWinners(t) ==
    /\ task[t].pc = "set_winners"
    /\ pots' = set_pot_winners(pots, task[t].pot, FinalWinners(task[t].order))
    /\ task' = [task EXCEPT ![t].pc = "set_revealed"]
    /\ UNCHANGED <<now, tickets, users, payouts, h, crashes, refundTotal,
                   closeNotices, prize, auxVars>>

SetRevealed(t) ==
    /\ task[t].pc = "set_revealed"
    /\ pots' = update_pot_status(pots, task[t].pot, "revealed")
    /\ task' = [task EXCEPT ![t] = Return(t)]
    /\ UNCHANGED <<now, tickets, users, payouts, h, crashes, refundTotal,
                   closeNotices, prize, auxVars>>

\* ---------------------------------------------------------------- scheduler
\* schedule_daily_pot_open, one iteration: now and get_current_pot are read,
\* then one of the cases is taken.  Cases 3 and 4 (and case 5 before the
\* opening time) only sleep.
\* Case 1: the pot is open and past its end time
SchedClose ==
    /\ task["sched"].pc = "idle"
    /\ get_current_pot # NoPot
    /\ pots[get_current_pot].status = "open"
    /\ now >= pots[get_current_pot].end_time
    /\ task' = [task EXCEPT !["sched"] =
                  [IdleTask EXCEPT !.pc = "close_read", !.pot = get_current_pot]]
    /\ UNCHANGED <<now, dbVars, h, crashes, refundTotal, closeNotices, prize, auxVars>>

\* variant: a closed pot is revealed without waiting for the delay
SchedReveal_NoDelay ==
    /\ task["sched"].pc = "idle"
    /\ get_current_pot # NoPot
    /\ pots[get_current_pot].status = "closed"
    /\ RevealBegin("sched", get_current_pot)
    /\ UNCHANGED <<now, dbVars, h, crashes, refundTotal, closeNotices, prize, auxVars>>

\* Case 2: the pot is closed and past the reveal time
SchedReveal ==
    /\ task["sched"].pc = "idle"
    /\ get_current_pot # NoPot
    /\ pots[get_current_pot].status = "closed"
    /\ now >= pots[get_current_pot].end_time + REVEAL_DELAY_MINUTES
    /\ RevealBegin("sched", get_current_pot)
    /\ UNCHANGED <<now, dbVars, h, crashes, refundTotal, closeNotices, prize, auxVars>>

\* variant: the pot is created whatever the time of day
SchedCreate_NoTimeCheck ==
    /\ task["sched"].pc = "idle"
    /\ get_current_pot = NoPot
    /\ NextPotId # NoPot
    /\ task' = [task EXCEPT !["sched"] =
                  [IdleTask EXCEPT !.pc = "insert_pot", !.day = DayOf(now),
                                   !.end = PotEndTime(DayOf(now)), !.n = PoolSize]]
    /\ UNCHANGED <<now, dbVars, h, crashes, refundTotal, closeNotices, prize, auxVars>>

\* Case 5: no pot for today and the opening time has come
SchedCreate ==
    /\ task["sched"].pc = "idle"
    /\ get_current_pot = NoPot
    /\ now >= PotOpenTime(DayOf(now))
    /\ NextPotId # NoPot
    /\ task' = [task EXCEPT !["sched"] =
                  [IdleTask EXCEPT !.pc = "insert_pot", !.day = DayOf(now),
                                   !.end = PotEndTime(DayOf(now)), !.n = PoolSize]]
    /\ UNCHANGED <<now, dbVars, h, crashes, refundTotal, closeNotices, prize, auxVars>>

\* ------------------------------------------------------- operator commands
\* /closepot: today's pot is read and found open
ClosepotCmd ==
    /\ Polling
    /\ task["admin"].pc = "idle"
    /\ get_current_pot # NoPot
    /\ pots[get_current_pot].status = "open"
    /\ task' = [task EXCEPT !["admin"] =
                  [IdleTask EXCEPT !.pc = "close_read", !.pot = get_current_pot]]
    /\ UNCHANGED <<now, dbVars, h, crashes, refundTotal, closeNotices, prize, auxVars>>

\* /reveal: today's pot is read and is not open
RevealCmd ==
    /\ Polling
    /\ task["admin"].pc = "idle"
    /\ get_current_pot # NoPot
    /\ pots[get_current_pot].status # "open"
    /\ RevealBegin("admin", get_current_pot)
    /\ UNCHANGED <<now, dbVars, h, crashes, refundTotal, closeNotices, prize, auxVars>>

\* /openpot: today's pot is read; if it is open the command does nothing, if it
\* is closed or revealed it is deleted first; then create_pot with an end time
\* two hours from now
OpenpotCmd ==
    /\ Polling
    /\ task["admin"].pc = "idle"
    /\ get_current_pot # NoPot => pots[get_current_pot].status # "open"
    /\ task' = [task EXCEPT !["admin"] =
                  [IdleTask EXCEPT !.pc = IF get_current_pot = NoPot THEN "insert_pot"
                                          ELSE "delete_pot",
                                   !.day = DayOf(now),
                                   !.end = now + OPENPOT_HOURS * 60,
                                   !.n = OpenpotPool]]
    /\ UNCHANGED <<now, dbVars, h, crashes, refundTotal, closeNotices, prize, auxVars>>

\* /openpot, delete_one({"date": today}): the pot document goes, its tickets and
\* its payout documents stay
DeletePot ==
    /\ task["admin"].pc = "delete_pot"
    /\ pots' = [p \in PotIds |->
                  IF Exists(p) /\ pots[p].date = task["admin"].day THEN EmptyPot("deleted")
                  ELSE pots[p]]
    /\ task' = [task EXCEPT !["admin"].pc = "insert_pot"]
    /\ UNCHANGED <<now, tickets, users, payouts, h, crashes, refundTotal, closeNotices,
                   prize, auxVars>>

\* the payout a keyboard is about: the document's _id
PayoutKey(d) == [user_telegram_id |-> d.user_telegram_id, pot_id |-> d.pot_id,
                 amount |-> d.amount]

\* /payouts: one message with a Mark Paid and a Mark Failed button for every
\* PENDING payout; n tells the messages of one payout apart
ListPayouts(n) ==
    /\ Polling
    /\ buttons' = buttons \cup {[payout |-> PayoutKey(d), listing |-> n] :
                                  d \in {e \in BagToSet(payouts) : e.status = "PENDING"}}
    /\ buttons' # buttons
    /\ UNCHANGED <<now, dbVars, h, task, crashes, refundTotal, closeNotices, prize,
                   ledger, faults, h2>>

\* update_payout_status: a $set on the document of the _id, whatever its status
update_payout_status(ps, d, new_status) ==
    (ps (-) SetToBag({d})) (+) SetToBag({[d EXCEPT !.status = new_status]})

\* handle_payout_action_callback: a click on a button of a keyboard; the
\* message is edited afterwards and loses its keyboard
PayoutAction(b, action) ==
    /\ Polling
    /\ b \in buttons
    /\ \E d \in BagToSet(payouts) :
          /\ PayoutKey(d) = b.payout
          /\ payouts' = update_payout_status(payouts, d, action)
    /\ buttons' = buttons \ {b}
    /\ UNCHANGED <<now, pots, tickets, users, h, task, crashes, refundTotal,
                   closeNotices, prize, ledger, faults, h2>>

\* update_user_upi: a $set of upi_id on the user document
update_user_upi(us, u, upi) ==
    IF us[u].exists THEN [us EXCEPT ![u].upi_id = upi] ELSE us

\* /setupi, the id typed and confirmed: confirm_upi_callback stores it
SetUpi(u, upi) ==
    /\ Polling
    /\ users[u].exists
    /\ users[u].upi_id # upi
    /\ users' = update_user_upi(users, u, upi)
    /\ UNCHANGED <<now, pots, tickets, payouts, h, task, crashes, refundTotal,
                   closeNotices, prize, auxVars>>

\* clear_user.py: the maintenance script deletes one user document
ClearUser ==
    /\ users[USER_ID_TO_CLEAR].exists
    /\ users' = [users EXCEPT ![USER_ID_TO_CLEAR] =
                    [exists |-> FALSE, real_balance |-> 0, bonus_balance |-> 0,
                     last_ticket_code |-> NoCode, upi_id |-> PyNone,
                     referred_by |-> NoUser, referred_users_tickets |-> <<>>,
                     referral_count |-> 0]]
    /\ UNCHANGED <<now, pots, tickets, payouts, h, task, crashes, refundTotal,
                   closeNotices, prize, auxVars>>

\* ---------------------------------------------------------------- the clock
\* the instants the code compares now with
TimePoints ==
    {PotOpenTime(DayOf(now))} \cup
    UNION {{pots[p].end_time, pots[p].end_time + REVEAL_DELAY_MINUTES} :
              p \in {q \in PotIds : Exists(q)}}

Tick ==
    /\ \E t \in TimePoints : t > now /\ now' = t
    /\ UNCHANGED <<dbVars, h, task, crashes, refundTotal, closeNotices, prize, auxVars>>

\* close_overdue_pots_on_startup: today's pot, if open and past its end
\* time, is closed
StartupScan ==
    /\ task["startup"].pc = "recover"
    /\ task' = [task EXCEPT !["startup"] =
                  IF /\ get_current_pot # NoPot
                     /\ pots[get_current_pot].status = "open"
                     /\ pots[get_current_pot].end_time < now
                  THEN [IdleTask EXCEPT !.pc = "close_read", !.pot = get_current_pot]
                  ELSE IdleTask]
    /\ UNCHANGED <<now, dbVars, h, crashes, refundTotal, closeNotices, prize, auxVars>>

\* the process is killed and started again: every task and the in-memory FSM
\* storage are lost, the collections stay; on_startup starts the scheduler
\* task and runs the recovery scan
Crash ==
    /\ crashes < MaxCrashes
    /\ crashes' = crashes + 1
    /\ task' = [t \in Tasks |-> IF t = "startup" THEN [IdleTask EXCEPT !.pc = "recover"]
                                 ELSE IdleTask]
    /\ h' = [u \in Users |-> IdleHandler]
    /\ h2' = [u \in Users |-> IdleHandler]
    /\ UNCHANGED <<now, dbVars, refundTotal, closeNotices, prize, ledger, buttons, faults>>

\* ------------------------------------------------------------ specifications
NoLedger == [pending |-> {}, issued |-> 0,
             applied |-> [u \in Users |-> [real |-> 0, bonus |-> 0]]]

NoFaults == [storage |-> 0, notify |-> 0]

NoPrize == [c |-> 0, stage |-> "off", prizes |-> Prizes(0), awarded |-> <<>>]

InitData ==
    /\ pots = [p \in PotIds |-> EmptyPot("none")]
    /\ tickets = {}
    /\ users = [u \in Users |-> NewUser(DEFAULT_TICKET_PRICE, NoUser)]
    /\ payouts = EmptyBag
    /\ h = [u \in Users |-> IdleHandler]
    /\ task = [t \in Tasks |-> IdleTask]
    /\ crashes = 0
    /\ refundTotal = [p \in PotIds |-> [u \in Users |-> 0]]
    /\ closeNotices = [p \in PotIds |-> 0]
    /\ ledger = NoLedger
    /\ buttons = {}
    /\ faults = NoFaults
    /\ h2 = [u \in Users |-> IdleHandler]

InitBase == now = PotOpenTime(0) /\ InitData

Init == InitBase /\ prize = NoPrize

PotSteps(t) ==
    \/ InsertPot(t)
    \/ InsertTickets(t)
    \/ CloseRead(t)
    \/ CloseWrite(t)
    \/ RefundStep(t)
    \/ PayoutStep(t)
    \/ SetWinners(t)
    \/ SetRevealed(t)

SchedNext ==
    \/ SchedClose
    \/ SchedReveal
    \/ SchedCreate
    \/ PotSteps("sched")

AdminNext ==
    \/ ClosepotCmd
    \/ RevealCmd
    \/ CloseRead("admin")
    \/ CloseWrite("admin")
    \/ RefundStep("admin")
    \/ PayoutStep("admin")
    \/ SetWinners("admin")
    \/ SetRevealed("admin")

Next ==
    \/ UserNext
    \/ SchedNext
    \/ AdminNext
    \/ ClearUser
    \/ Tick

Spec == Init /\ [][Next]_vars

\* the scheduler and the buyers of a process that may be killed and restarted;
\* no operator
StartupNext ==
    \/ StartupScan
    \/ CloseRead("startup")
    \/ CloseWrite("startup")

NextCrash ==
    \/ UserNext
    \/ SchedNext
    \/ StartupNext
    \/ Crash
    \/ Tick

SpecCrash == Init /\ [][NextCrash]_vars

\* the buyers, the scheduler and an operator who reopens the day's pot with
\* /openpot
OpenpotNext ==
    \/ OpenpotCmd
    \/ DeletePot
    \/ InsertPot("admin")
    \/ InsertTickets("admin")

NextOpenpot ==
    \/ UserNext
    \/ SchedNext
    \/ OpenpotNext
    \/ Tick

SpecOpenpot == Init /\ [][NextOpenpot]_vars

\* a buyer who may click a payment button twice, a scheduler that creates and
\* closes the pot, and an operator who reopens it with /openpot
NextDouble ==
    \/ DoubleNext
    \/ SchedCreate
    \/ SchedClose
    \/ InsertPot("sched")
    \/ InsertTickets("sched")
    \/ CloseRead("sched")
    \/ CloseWrite("sched")
    \/ OpenpotNext
    \/ Tick

SpecDouble == Init /\ [][NextDouble]_vars

\* the user who referred the buyer
Referrer == CHOOSE u \in Users : u # Clicker

\* the buyer has registered with the referrer's link and has recharged the
\* price of two tickets
InitReferral ==
    /\ now = PotOpenTime(0)
    /\ pots = [p \in PotIds |-> EmptyPot("none")]
    /\ tickets = {}
    /\ users = [u \in Users |->
                  IF u = Clicker THEN NewUser(2 * DEFAULT_TICKET_PRICE, Referrer)
                  ELSE NewUser(DEFAULT_TICKET_PRICE, NoUser)]
    /\ payouts = EmptyBag
    /\ h = [u \in Users |-> IdleHandler]
    /\ task = [t \in Tasks |-> IdleTask]
    /\ crashes = 0
    /\ refundTotal = [p \in PotIds |-> [u \in Users |-> 0]]
    /\ closeNotices = [p \in PotIds |-> 0]
    /\ prize = NoPrize
    /\ ledger = NoLedger
    /\ buttons = {}
    /\ faults = NoFaults
    /\ h2 = [u \in Users |-> IdleHandler]

ReferralNext ==
    \/ RefRead(Clicker)
    \/ RefCredit(Clicker)
    \/ DoubleRefRead(Clicker)
    \/ DoubleRefCredit(Clicker)

\* a referred buyer whose clicks may come twice, the scheduler's create and
\* close, and an operator who reopens the day's pot
NextReferral ==
    \/ NextDouble
    \/ ReferralNext

SpecReferral == InitReferral /\ [][NextReferral]_vars

\* the buyers, the scheduler, and an operator who lists the payouts and marks
\* them paid or failed
PayoutNext ==
    \/ \E n \in 1..MaxKeyboards : ListPayouts(n)
    \/ \E b \in buttons : \E action \in {"PAID", "FAILED"} : PayoutAction(b, action)

NextPayout ==
    \/ UserNext
    \/ SchedNext
    \/ PayoutNext
    \/ Tick

SpecPayout == Init /\ [][NextPayout]_vars

\* the buyers, who may register a UPI id, the scheduler, and the maintenance
\* script
NextUpi ==
    \/ UserNext
    \/ \E u \in Users : \E upi \in UpiIds : SetUpi(u, upi)
    \/ SchedNext
    \/ ClearUser
    \/ Tick

SpecUpi == Init /\ [][NextUpi]_vars

\* ------------------------------------------------- the wallet on its own
\* the amounts of the wallet operations: a bonus button's amount, a ticket price
Amounts == {BonusOptions_10, DEFAULT_TICKET_PRICE}

\* the referral credit: its own $inc of bonus_balance on the referrer's document
referral_credit(us, u, amount) ==
    IF us[u].exists THEN [us EXCEPT ![u].bonus_balance = @ + amount] ELSE us

\* the deltas a caller may be about to apply to user u: the ticket debit (the
\* split the handler computed from the balances it read), the refund of a
\* ticket price, the recharge the operator approves, the referral bonus
WalletOps(u) ==
    {[kind |-> "debit", user |-> u, real |-> -(DEFAULT_TICKET_PRICE - b), bonus |-> -b] :
        b \in {x \in {0, BonusOptions_10} :
                  /\ x <= users[u].bonus_balance
                  /\ users[u].real_balance >= DEFAULT_TICKET_PRICE - x}}
    \cup {[kind |-> "refund", user |-> u, real |-> DEFAULT_TICKET_PRICE, bonus |-> 0]}
    \cup {[kind |-> "recharge", user |-> u, real |-> a, bonus |-> 0] : a \in Amounts}
    \cup {[kind |-> "referral", user |-> u, real |-> 0, bonus |-> BonusOptions_10]}

\* a caller reaches its balance update: the operation is in flight
LedgerIssue ==
    /\ ledger.issued < MaxOps
    /\ \E u \in Users : \E op \in WalletOps(u) :
          ledger' = [ledger EXCEPT
                       !.pending = @ \cup {[id |-> ledger.issued + 1, op |-> op]},
                       !.issued = @ + 1]
    /\ UNCHANGED <<now, dbVars, h, task, crashes, refundTotal, closeNotices, prize,
                   buttons, faults, h2>>

\* the database executes one of the operations in flight
LedgerApply ==
    /\ \E e \in ledger.pending :
          LET op == e.op
              u == op.user
          IN  /\ users' = IF op.kind = "referral" THEN referral_credit(users, u, op.bonus)
                           ELSE update_user_balance(users, u, op.real, op.bonus)
              /\ ledger' = [ledger EXCEPT
                              !.pending = @ \ {e},
                              !.applied[u] = [real |-> @.real + op.real,
                                              bonus |-> @.bonus + op.bonus]]
    /\ UNCHANGED <<now, pots, tickets, payouts, h, task, crashes, refundTotal,
                   closeNotices, prize, buttons, faults, h2>>

NextLedger ==
    \/ LedgerIssue
    \/ LedgerApply

SpecLedger == Init /\ [][NextLedger]_vars

\* the prize table on its own, for every participant count up to MaxCount
InitPrize ==
    /\ InitBase
    /\ \E c \in 0..MaxCount : prize = [c |-> c, stage |-> "input", prizes |-> Prizes(0),
                                        awarded |-> <<>>]

\* the branch on the count and the prize table: fewer than 2 participants are
\* refunded, no prize is computed
PrizeCompute ==
    /\ prize.stage = "input"
    /\ prize' = IF prize.c < 2 THEN [prize EXCEPT !.stage = "refund"]
                ELSE [prize EXCEPT !.stage = "scaled", !.prizes = Prizes(prize.c)]
    /\ UNCHANGED <<now, dbVars, h, task, crashes, refundTotal, closeNotices, auxVars>>

\* the ranks awarded, in the order they are processed
PrizeAward ==
    /\ prize.stage = "scaled"
    /\ prize' = [prize EXCEPT
            !.stage = "awarded",
            !.awarded = WinnersData([j \in 1..Min(3, prize.c) |->
                                        [telegram_id |-> j, ticket_code |-> j]], prize.c)]
    /\ UNCHANGED <<now, dbVars, h, task, crashes, refundTotal, closeNotices, auxVars>>

NextPrize == PrizeCompute \/ PrizeAward

SpecPrize == InitPrize /\ [][NextPrize]_vars

\* ------------------------------------------------- the scheduler on the clock
\* The scheduler alone, with its sleeps: time passes only while it sleeps, and
\* only while the startup recovery is not in the middle of its close.
Max(a, b) == IF a >= b THEN a ELSE b

Horizon == MaxDays * 1440

\* the instants of day 0 at which the process is started: before the opening
\* time, at the opening time, after the default end time, shortly before
\* midnight
StartTimes ==
    {PotOpenTime(0) - SLEEP_AFTER_REVEAL, PotOpenTime(0),
     PotEndTime(0) + SLEEP_AFTER_REVEAL, 1440 - SLEEP_AFTER_CREATE \div 2}

\* A pot of an earlier date that is revealed and has no participant is looked
\* at by nothing any more: get_current_pot returns today's pot only.
Forgotten(p) == pots[p].status = "revealed" /\ pots[p].participants = <<>>

\* a pot document seen from the next day; a pot of an earlier day than day 0 is
\* kept as it is, its end_time being in the past of every instant
ShiftPot(q) ==
    IF q.status = "none" \/ q.date < 0 THEN q
    ELSE [q EXCEPT !.date = @ - 1, !.end_time = @ - 1440]

\* asyncio.sleep of d minutes. A sleep that ends after the last day the clock
\* tells apart renumbers the days by one: the last day is lived again, with the
\* pots the earlier days have left behind.
Sleep(d) ==
    IF now + d < Horizon
    THEN /\ now' = now + d
         /\ UNCHANGED <<pots, tickets, refundTotal, closeNotices>>
    ELSE /\ now' = now + d - 1440
         /\ pots' = [p \in PotIds |-> IF Forgotten(p) THEN EmptyPot("none")
                                       ELSE ShiftPot(pots[p])]
         /\ tickets' = {k \in tickets : ~Forgotten(k.pot_id)}
         /\ refundTotal' = [p \in PotIds |-> IF Forgotten(p) THEN [u \in Users |-> 0]
                                               ELSE refundTotal[p]]
         /\ closeNotices' = [p \in PotIds |-> IF Forgotten(p) THEN 0
                                                ELSE closeNotices[p]]

\* the scheduler is at the top of its loop, not sleeping
Awake == task["sched"].pc = "idle" /\ task["sched"].nap = 0

Quiet == task["startup"].pc = "idle"

TimedClose == Awake /\ SchedClose

TimedReveal == Awake /\ SchedReveal

TimedCreate == Awake /\ SchedCreate

\* the sleep after case 1, 2 or 5 (create)
SchedNap ==
    /\ task["sched"].pc = "idle"
    /\ task["sched"].nap > 0
    /\ Quiet
    /\ Sleep(task["sched"].nap)
    /\ task' = [task EXCEPT !["sched"].nap = 0]
    /\ UNCHANGED <<users, payouts, h, crashes, prize, auxVars>>

\* an iteration that only sleeps: case 3 (revealed: until tomorrow's opening
\* time), case 4 (one minute), case 5 before the opening time (until it)
SchedWait ==
    /\ Awake
    /\ Quiet
    /\ LET p == get_current_pot
           today == DayOf(now)
           case1 == p # NoPot /\ pots[p].status = "open" /\ now >= pots[p].end_time
           case2 == /\ p # NoPot /\ pots[p].status = "closed"
                    /\ now >= pots[p].end_time + REVEAL_DELAY_MINUTES
           create == p = NoPot /\ now >= PotOpenTime(today)
           d == IF p = NoPot THEN Max(SLEEP_MIN, PotOpenTime(today) - now)
                ELSE IF pots[p].status = "revealed"
                     THEN Max(SLEEP_MIN, PotOpenTime(today + 1) - now)
                ELSE SLEEP_POLL
       IN  /\ ~case1 /\ ~case2 /\ ~create
           /\ Sleep(d)
    /\ UNCHANGED <<users, payouts, h, task, crashes, prize, auxVars>>

InitSched ==
    /\ now \in StartTimes
    /\ InitData
    /\ prize = NoPrize

\* the scheduler's steps on pots nobody has bought a ticket of
NextSched ==
    \/ TimedClose
    \/ TimedReveal
    \/ TimedCreate
    \/ InsertPot("sched")
    \/ InsertTickets("sched")
    \/ CloseRead("sched")
    \/ CloseWrite("sched")
    \/ SetRevealed("sched")
    \/ SchedNap
    \/ SchedWait

\* a scheduler that is never killed and always gets to run
SpecSched == InitSched /\ [][NextSched]_vars /\ WF_vars(NextSched)

\* the lengths of an outage: an hour, half a day
Downtimes == {SLEEP_AFTER_REVEAL, 1440 \div 2}

\* the process is killed and started again after an outage: the tasks are
\* lost, the collections stay, the clock has moved on; on_startup starts the
\* scheduler task and runs the recovery scan
Outage ==
    /\ crashes < MaxCrashes
    /\ \E d \in Downtimes : now + d < Horizon /\ now' = now + d
    /\ crashes' = crashes + 1
    /\ task' = [t \in Tasks |-> IF t = "startup" THEN [IdleTask EXCEPT !.pc = "recover"]
                                 ELSE IdleTask]
    /\ h' = [u \in Users |-> IdleHandler]
    /\ h2' = [u \in Users |-> IdleHandler]
    /\ UNCHANGED <<dbVars, refundTotal, closeNotices, prize, ledger, buttons, faults>>

NextOutage ==
    \/ NextSched
    \/ StartupNext
    \/ Outage

\* the scheduler on the clock, in a process that goes down and comes back
SpecOutage == InitSched /\ [][NextOutage]_vars /\ WF_vars(NextOutage)

\* A storage operation of the scheduler raises (the database is unreachable at
\* that await): get_current_pot at the top of the loop, or the next operation of
\* the create, close or reveal the iteration has begun. The operation has no
\* effect. Nothing between the await and the task's coroutine catches the
\* exception: the loop has no try, and create_pot, close_pot_and_distribute_prizes
\* and process_pot_revelation guard their sends only. The task ends; the process
\* goes on, and the storage is available again for whoever uses it next.
StorageFailure ==
    /\ faults.storage < MaxFaults
    /\ Quiet
    /\ \/ Awake
       \/ task["sched"].pc \notin {"idle", "dead"}
    /\ task' = [task EXCEPT !["sched"] = [IdleTask EXCEPT !.pc = "dead"]]
    /\ faults' = [faults EXCEPT !.storage = @ + 1]
    /\ UNCHANGED <<now, dbVars, h, crashes, refundTotal, closeNotices, prize,
                   ledger, buttons, h2>>

NextStorage ==
    \/ NextSched
    \/ StorageFailure

\* the scheduler on the clock, always getting to run, with a storage that can
\* fail under it
SpecStorage == InitSched /\ [][NextStorage]_vars /\ WF_vars(NextSched)

\* The sends of the scheduler's create, close and reveal that no try guards come
\* after the step's last write: the operator's notice of create, of close, and
\* of a refund reveal, and the channel's list of winners. When such a send
\* raises (the chat is unreachable, the bot is blocked, the text is refused),
\* the exception leaves the loop and the task ends, the write being done.

\* the pot's tickets are inserted; the operator's 'Pot auto-opened' raises
CreateNoticeFails ==
    /\ faults.notify < MaxFaults
    /\ task["sched"].pc = "insert_tickets"
    /\ tickets' = tickets \cup {[pot_id |-> task["sched"].pot, code |-> c] :
                                  c \in NewCodes(task["sched"].pot, task["sched"].n)}
    /\ task' = [task EXCEPT !["sched"] = [IdleTask EXCEPT !.pc = "dead"]]
    /\ faults' = [faults EXCEPT !.notify = @ + 1]
    /\ UNCHANGED <<now, pots, users, payouts, h, crashes, refundTotal, closeNotices,
                   prize, ledger, buttons, h2>>

\* the pot is set to closed and announced to the channel; the operator's 'Pot
\* Closed' raises
CloseNoticeFails ==
    /\ faults.notify < MaxFaults
    /\ task["sched"].pc = "close_write"
    /\ pots' = update_pot_status(pots, task["sched"].pot, "closed")
    /\ closeNotices' = [closeNotices EXCEPT ![task["sched"].pot] = @ + 1]
    /\ task' = [task EXCEPT !["sched"] = [IdleTask EXCEPT !.pc = "dead"]]
    /\ faults' = [faults EXCEPT !.notify = @ + 1]
    /\ UNCHANGED <<now, tickets, users, payouts, h, crashes, refundTotal, prize,
                   ledger, buttons, h2>>

\* the pot is set to revealed; the operator's notice of the refunds, or the
\* channel's list of winners, raises
RevealNoticeFails ==
    /\ faults.notify < MaxFaults
    /\ task["sched"].pc = "set_revealed"
    /\ pots' = update_pot_status(pots, task["sched"].pot, "revealed")
    /\ task' = [task EXCEPT !["sched"] = [IdleTask EXCEPT !.pc = "dead"]]
    /\ faults' = [faults EXCEPT !.notify = @ + 1]
    /\ UNCHANGED <<now, tickets, users, payouts, h, crashes, refundTotal,
                   closeNotices, prize, ledger, buttons, h2>>

NextNotify ==
    \/ NextSched
    \/ CreateNoticeFails
    \/ CloseNoticeFails
    \/ RevealNoticeFails

\* the scheduler on the clock, always getting to run, with sends that can fail
SpecNotify == InitSched /\ [][NextNotify]_vars /\ WF_vars(NextSched)

\* ---------------------------------------------------------------- properties
\* how often a code occurs in a participants list
CodeCount(parts, c) == Cardinality({i \in DOMAIN parts : parts[i].ticket_code = c})

\* the payout documents of a pot
PotPayouts(p) == {d \in BagToSet(payouts) : d.pot_id = p}

RECURSIVE Copies(_)
Copies(docs) ==
    IF docs = {} THEN 0
    ELSE LET d == CHOOSE x \in docs : TRUE
         IN  CopiesIn(d, payouts) + Copies(docs \ {d})

\* number of payout documents of a pot
PayoutCount(p) == Copies(PotPayouts(p))

\* number of PENDING payout documents of a pot for an amount
PendingCount(p, amount) ==
    Copies({d \in PotPayouts(p) : d.amount = amount /\ d.status = "PENDING"})

RECURSIVE SumRefunds(_, _)
SumRefunds(p, us) ==
    IF us = {} THEN 0
    ELSE LET u == CHOOSE x \in us : TRUE
         IN  refundTotal[p][u] + SumRefunds(p, us \ {u})

\* C1: when users race for the same code of an open pot, a claim succeeds
\* exactly when no earlier claim has taken the code, so the first one to reach
\* the database succeeds and every later one fails; a successful claim appends
\* the caller's entry, at most one handler holds a successful claim of a code,
\* and after every claim the code is in participants exactly once
C1_OneClaimWins ==
    [][/\ \A u \in Users :
            (/\ h[u].pc = "claim" /\ h'[u] # h[u]
             /\ Exists(h[u].pot) /\ pots[h[u].pot].status = "open"
             /\ u \notin ParticipantUsers(h[u].pot))
            => LET p == h[u].pot
                   c == h[u].code
               IN  /\ (h'[u].pc = "debit") <=> (c \notin ParticipantCodes(p))
                   /\ (h'[u].pc # "debit") <=> (h'[u].pc = "idle" /\ pots' = pots)
                   /\ h'[u].pc = "debit" =>
                        pots'[p].participants =
                            Append(pots[p].participants, [telegram_id |-> u, ticket_code |-> c])
                   /\ CodeCount(pots'[p].participants, c) = 1
       /\ \A u, v \in Users :
            (/\ h'[u].pc = "debit" /\ h'[v].pc = "debit"
             /\ h'[u].pot = h'[v].pot /\ h'[u].code = h'[v].code) => u = v
      ]_vars

\* C1 witness: two users raced for one code of an open pot; one claim has
\* succeeded, the other is still to reach the database
C1_Witness ==
    \E u, v \in Users :
        /\ u # v
        /\ h[u].pc = "debit" /\ h[v].pc = "claim"
        /\ h[u].pot = h[v].pot /\ h[u].code = h[v].code
        /\ pots[h[u].pot].status = "open"
        /\ CodeCount(pots[h[u].pot].participants, h[u].code) = 1

C3_ClosedPotFrozen ==
    [][\A p \in PotIds :
            pots[p].status \in {"closed", "revealed"}
            => /\ pots'[p].participants = pots[p].participants
               /\ pots'[p].total_tickets = pots[p].total_tickets
               /\ pots'[p].status \in {"closed", "revealed"}
               /\ \A u \in Users :
                    (h[u].pc = "claim" /\ h[u].pot = p /\ h'[u] # h[u])
                    => h'[u] = IdleHandler /\ users' = users
      ]_vars

\* C3 witness: a handler is about to claim a free code of a pot that was
\* closed after the handler read it as open
C3_Witness ==
    \E u \in Users :
        /\ h[u].pc = "claim"
        /\ pots[h[u].pot].status = "closed"
        /\ h[u].code \notin ParticipantCodes(h[u].pot)
        /\ u \notin ParticipantUsers(h[u].pot)

\* C4: a pot's status only moves forward: an open pot stays open or becomes
\* closed, a closed pot stays closed or becomes revealed, a revealed pot stays
\* revealed
C4_StatusMovesForward ==
    [][\A p \in PotIds :
            /\ pots[p].status = "open" => pots'[p].status \in {"open", "closed"}
            /\ pots[p].status = "closed" => pots'[p].status \in {"closed", "revealed"}
            /\ pots[p].status = "revealed" => pots'[p].status = "revealed"
      ]_vars

\* C5: whatever the interleaving of the scheduler's reveal and the operator's
\* /reveal, a pot has at most one PENDING payout document per rank (the ranks
\* of a pot have different amounts)
C5_OnePayoutPerRank ==
    \A p \in PotIds :
        \A r \in {"1st", "2nd", "3rd"} :
            PendingCount(p, Prizes(Len(pots[p].participants))[r]) <= 1

\* C6: a close call that finds the pot closed or revealed returns at once:
\* no collection changes, no announcement is sent, no refund is credited; so
\* a second close in sequence leaves the state of the first
C6_CloseIdempotent ==
    [][\A t \in Tasks :
            (/\ task[t].pc = "close_read" /\ task'[t] # task[t]
             /\ Exists(task[t].pot)
             /\ pots[task[t].pot].status \in {"closed", "revealed"})
            => /\ task'[t].pc = "idle"
               /\ UNCHANGED <<pots, tickets, users, payouts, closeNotices, refundTotal>>
      ]_vars

\* C6 witness: a close call is about to read a pot that another close has
\* already closed, with its one announcement sent
C6_Witness ==
    \E t \in Tasks :
        /\ task[t].pc = "close_read"
        /\ pots[task[t].pot].status = "closed"
        /\ closeNotices[task[t].pot] = 1

\* C7: a reveal that is retried after the process was stopped inside it does
\* not draw again: a pot never has more payout documents than one draw awards
\* (one per rank, at most three and at most one per participant)
C7_OneDrawOnly ==
    \A p \in PotIds :
        PayoutCount(p) <= Min(3, Len(pots[p].participants))

\* C8: the reveal of a pot with fewer than 2 participants: each refund step
\* credits exactly the ticket price to the participant's real balance and
\* nothing to the bonus balance, and the step that ends the reveal leaves the
\* pot revealed, without winners and without payout documents, every
\* participant whose user document exists having been credited
C8_RefundPath ==
    [][\A t \in Tasks :
            LET p == task[t].pot
            IN  /\ (task[t].pc = "refund" /\ task'[t] # task[t])
                   => LET u == pots[p].participants[task[t].i].telegram_id
                      IN  /\ Len(pots[p].participants) < 2
                          /\ users[u].exists =>
                                /\ users'[u].real_balance =
                                        users[u].real_balance + pots[p].ticket_price
                                /\ users'[u].bonus_balance = users[u].bonus_balance
                          /\ \A v \in Users \ {u} : users'[v] = users[v]
                          /\ UNCHANGED <<pots, payouts>>
                /\ (task[t].pc = "set_revealed" /\ task[t].n < 2 /\ task'[t] # task[t])
                   => /\ pots'[p].status = "revealed"
                      /\ pots'[p].winners = <<>>
                      /\ PotPayouts(p) = {}
                      /\ UNCHANGED <<users, payouts>>
                      /\ \A i \in DOMAIN pots[p].participants :
                            LET u == pots[p].participants[i].telegram_id
                            IN  users[u].exists => refundTotal[p][u] >= pots[p].ticket_price
      ]_vars

\* C8 witness: a pot with one participant has been revealed by the refund
\* path: no winners, no payout document, the participant credited the price
C8_Witness ==
    \E p \in PotIds :
        /\ pots[p].status = "revealed"
        /\ Len(pots[p].participants) = 1
        /\ pots[p].winners = <<>>
        /\ PotPayouts(p) = {}
        /\ LET u == pots[p].participants[1].telegram_id
           IN  /\ refundTotal[p][u] = pots[p].ticket_price
               /\ users[u].real_balance = DEFAULT_TICKET_PRICE

\* C9: for a pot revealed by the refund path, the refunds credited over the
\* whole execution add up to the participant count times the ticket price
C9_RefundConservation ==
    \A p \in PotIds :
        (pots[p].status = "revealed" /\ Len(pots[p].participants) < 2)
        => SumRefunds(p, Users) = Len(pots[p].participants) * pots[p].ticket_price

C11_PrizeMonotone ==
    (prize.stage \in {"scaled", "awarded"} /\ prize.c < 30) =>
        /\ \A c1 \in 2..(prize.c - 1) :
                ScaledPrize(BASE_1ST, c1) <= prize.prizes["1st"]
        /\ prize.prizes["1st"] <= 50000

\* C11 witness: the 1st prize of 29 participants has been computed, above
\* that of 28 and below 500 rupees
C11_Witness ==
    /\ prize.stage = "scaled"
    /\ prize.c = 29
    /\ ScaledPrize(BASE_1ST, 28) < prize.prizes["1st"]
    /\ prize.prizes["1st"] = 48333

C13_PayoutPerWinner ==
    [][\A t \in Tasks :
            /\ (task[t].pc = "payout" /\ task'[t] # task[t])
               => LET e == task[t].order[task[t].i]
                      doc == [user_telegram_id |-> e.winner_obj.telegram_id,
                              pot_id |-> task[t].pot,
                              amount |-> Prizes(task[t].n)[e.rank],
                              status |-> "PENDING",
                              upi_id |-> winner_upi_id(e.winner_obj.telegram_id)]
                  IN  /\ payouts' = payouts (+) SetToBag({doc})
                      /\ users' = users
                      /\ task'[t].i = task[t].i + 1
                      /\ (task'[t].pc = "payout") <=> (task[t].i < Len(task[t].order))
                      /\ Len(task[t].order) = Min(3, task[t].n)
            /\ (/\ task[t].pc \in {"set_winners", "set_revealed"}
                /\ task[t].n >= 2 /\ task'[t] # task[t])
               => /\ users' = users
                  /\ payouts' = payouts
                  /\ \A j \in DOMAIN task[t].order :
                        \E d \in PotPayouts(task[t].pot) :
                            /\ d.user_telegram_id = task[t].order[j].winner_obj.telegram_id
                            /\ d.amount = task[t].order[j].prize
                            /\ d.status = "PENDING"
      ]_vars

\* C13 witness: a pot with two participants has been revealed: two winners,
\* two payout documents, and both wallets as the purchases left them
C13_Witness ==
    \E p \in PotIds :
        /\ pots[p].status = "revealed"
        /\ Len(pots[p].winners) = 2
        /\ PayoutCount(p) = 2
        /\ \A j \in DOMAIN pots[p].winners :
              LET u == pots[p].winners[j].telegram_id
              IN  /\ users[u].exists
                  /\ h[u].pc = "idle"
                  /\ users[u].real_balance = DEFAULT_TICKET_PRICE - pots[p].ticket_price
                  /\ users[u].bonus_balance = 0

\* C14: every pot that is open with its end_time in the past is eventually
\* closed by the scheduler alone, whatever its date: no pot stays open for
\* ever after its end_time
C14_OverdueEventuallyClosed ==
    \A p \in PotIds :
        (pots[p].status = "open" /\ now >= pots[p].end_time)
            ~> (pots[p].status # "open")

\* C15: the scheduler begins the reveal of a pot only when the pot is closed
\* and now >= end_time + REVEAL_DELAY_MINUTES, and a pot becomes revealed only
\* from closed and not before that instant
C15_RevealOnlyAfterDelay ==
    [][/\ (/\ task["sched"].pc = "idle"
           /\ task'["sched"].pc \in {"refund", "payout", "set_revealed"})
          => LET p == task'["sched"].pot
             IN  /\ pots[p].status = "closed"
                 /\ now >= pots[p].end_time + REVEAL_DELAY_MINUTES
       /\ \A p \in PotIds :
             (pots[p].status # "revealed" /\ pots'[p].status = "revealed")
                => /\ pots[p].status = "closed"
                   /\ now >= pots[p].end_time + REVEAL_DELAY_MINUTES
      ]_vars

\* C15 witness: the scheduler has revealed a pot at the very minute the delay
\* ran out, after polling a closed pot through the minutes before it
C15_Witness ==
    \E p \in PotIds :
        /\ pots[p].status = "revealed"
        /\ now = pots[p].end_time + REVEAL_DELAY_MINUTES
        /\ task["sched"].nap = SLEEP_AFTER_REVEAL

\* C16: with a scheduler that always gets to run and is never killed, and no
\* operator, every pot that is created eventually is revealed
C16_EveryPotRevealed ==
    \A p \in PotIds : Exists(p) ~> (pots[p].status = "revealed")

\* C17: an iteration of the scheduler that finds no pot of today's date at or
\* after today's opening time does nothing but begin create_pot, which inserts
\* exactly one pot: open, of today's date, without participants or winners;
\* before the opening time the iteration creates nothing, and create_pot is
\* begun in no other situation
C17_CreateWhenDue ==
    [][LET none == get_current_pot = NoPot
           due == now >= PotOpenTime(DayOf(now))
       IN  /\ (Awake /\ none /\ due)
              => (task'["sched"].pc = "insert_pot" /\ pots' = pots /\ now' = now)
           /\ (Awake /\ none /\ ~due)
              => (task'["sched"].pc = "idle" /\ pots' = pots)
           /\ (task["sched"].pc = "idle" /\ task'["sched"].pc = "insert_pot")
              => (none /\ due)
           /\ (task["sched"].pc = "insert_pot" /\ task' # task)
              => \E p \in PotIds :
                    /\ ~Exists(p)
                    /\ PotsOfDate(DayOf(now)) = {}
                    /\ pots'[p].status = "open"
                    /\ pots'[p].date = DayOf(now)
                    /\ pots'[p].participants = <<>>
                    /\ pots'[p].winners = <<>>
                    /\ \A q \in PotIds \ {p} : pots'[q] = pots[q]
      ]_vars

\* C17 witness: having slept through the night, the scheduler has inserted
\* the second day's pot at that day's opening time
C17_Witness ==
    \E p \in PotIds :
        /\ task["sched"].pc = "insert_tickets"
        /\ task["sched"].pot = p
        /\ pots[p].status = "open"
        /\ pots[p].date = 1
        /\ now = PotOpenTime(1)
        /\ pots[p].participants = <<>>

\* C18: when the recovery scan of a process start completes, no pot of any
\* date is left open with its end_time already passed
C18_RecoveryClosesOverdue ==
    [][(task["startup"].pc # "idle" /\ task'["startup"].pc = "idle")
          => \A p \in PotIds :
                ~(pots'[p].status = "open" /\ pots'[p].end_time < now')
      ]_vars

\* C19: the recovery scan and the scheduler never both close the same pot: a
\* pot is announced closed at most once
C19_OneCloseNotice ==
    \A p \in PotIds : closeNotices[p] <= 1

\* C20: every pot that exists and is not in the middle of create_pot has its
\* full ticket pool: as many tickets as its max_users, and no two tickets
\* share a code
C20_FullTicketPool ==
    /\ \A p \in PotIds :
          (Exists(p) /\ \A t \in Tasks : ~(task[t].pc = "insert_tickets" /\ task[t].pot = p))
             => Cardinality({k \in tickets : k.pot_id = p}) = pots[p].max_users
    /\ \A k1, k2 \in tickets : k1.code = k2.code => k1 = k2

\* C21: no two pots have the same date, and a create_pot for a date that has
\* a pot fails at its insert: the pots, with their participants, and the
\* tickets are left as they were, and no ticket is generated
C21_OnePotPerDate ==
    /\ [](\A p, q \in PotIds :
            (Exists(p) /\ Exists(q) /\ pots[p].date = pots[q].date) => p = q)
    /\ [][\A t \in Tasks :
            (/\ task[t].pc = "insert_pot"
             /\ PotsOfDate(task[t].day) # {}
             /\ task'[t] # task[t])
               => /\ pots' = pots
                  /\ tickets' = tickets
                  /\ task'[t].pc \in {"idle", "dead"}
         ]_vars

\* C21 witness: the scheduler and /openpot have raced for the day's pot, the
\* scheduler's insert has failed, and the pot /openpot made has a participant
C21_Witness ==
    /\ task["sched"].pc = "dead"
    /\ \E p \in PotIds :
          /\ Exists(p)
          /\ pots[p].max_users = OpenpotPool
          /\ Len(pots[p].participants) = 1

\* C22: at most one pot is open at any time
C22_OneOpenPot ==
    Cardinality({p \in PotIds : pots[p].status = "open"}) <= 1

\* C23: every ticket_code in a pot's participants is the code of a ticket of
\* that pot
C23_CodesFromOwnPool ==
    \A p \in PotIds :
        Exists(p) =>
            \A i \in DOMAIN pots[p].participants :
                [pot_id |-> p, code |-> pots[p].participants[i].ticket_code] \in tickets

\* C24: a pot never has more participants than its max_users
C24_ParticipantsWithinLimit ==
    \A p \in PotIds :
        Exists(p) => Len(pots[p].participants) <= pots[p].max_users

\* C25: whatever the order in which the balance updates in flight are executed
\* (ticket debits, refunds, recharges, referral credits), each balance of a
\* user is the balance the user started with plus the sum of the deltas applied
C25_NoLostUpdate ==
    \A u \in Users :
        /\ users[u].real_balance = DEFAULT_TICKET_PRICE + ledger.applied[u].real
        /\ users[u].bonus_balance = 0 + ledger.applied[u].bonus

\* C25 witness: three operations on one user were in flight together and have
\* all been executed, a debit among them
C25_Witness ==
    /\ ledger.issued = MaxOps
    /\ ledger.pending = {}
    /\ \E u \in Users :
          /\ ledger.applied[u].bonus > 0
          /\ ledger.applied[u].real < 0
          /\ \A v \in Users \ {u} : ledger.applied[v] = [real |-> 0, bonus |-> 0]

\* C26: no real_balance and no bonus_balance is ever negative
C26_BalancesNonNegative ==
    \A u \in Users : users[u].real_balance >= 0 /\ users[u].bonus_balance >= 0

\* the condition of the claim's filter that fails for pot p, user u and code c
ClaimFailure(p, u, c) ==
    IF ~Exists(p) \/ pots[p].status # "open" THEN "PotNotOpen"
    ELSE IF u \in ParticipantUsers(p) THEN "AlreadyPurchased"
    ELSE "AlreadySold"

\* C27: a claim that fails tells the buyer the condition that failed:
\* AlreadySold, AlreadyPurchased or PotNotOpen
C27_FailureReasonReported ==
    [][\A u \in Users :
            (h[u].pc = "claim" /\ h'[u].pc = "idle")
               => ClaimReply(FALSE) = ClaimFailure(h[u].pot, u, h[u].code)
      ]_vars

\* C28: a payout document that is PAID or FAILED keeps its status whatever the
\* operator clicks
C28_TerminalPayoutImmutable ==
    [][\A d \in BagToSet(payouts) :
            d.status \in {"PAID", "FAILED"}
               => CopiesIn(d, payouts') >= CopiesIn(d, payouts)
      ]_vars

\* C29: after a storage operation of the scheduler has failed, the scheduler
\* comes back to the top of its loop, where it looks at the day's pot again
C29_LoopSurvivesStorageFailure ==
    (faults.storage > 0) ~> Awake

\* C30: a send of create, close or reveal that fails leaves the scheduler in
\* its loop, and the write it comes with is made
C30_NotificationFailureHarmless ==
    [][faults'.notify > faults.notify
          => /\ task'["sched"].pc # "dead"
             /\ (pots' # pots \/ tickets' # tickets)
      ]_vars

\* C31 (as stated): the k-th participant of the shuffled list is given the k-th
\* rank: the first 1st, the second 2nd, the third 3rd
C31_RanksInDrawOrder ==
    prize.stage = "awarded" =>
        \A i \in DOMAIN prize.awarded :
            LET k == prize.awarded[i].winner_obj.telegram_id
            IN  prize.awarded[i].rank = <<"1st", "2nd", "3rd">>[k]

\* C31 (amended): the ranks are given against the order of the draw. Of the n
\* winners (3, or 2 of two participants) the k-th participant of the shuffled
\* list is given rank n + 1 - k: the first the lowest rank awarded, the last
\* popped the 1st; each of the first n is given exactly one rank
C31_RanksAgainstDrawOrder ==
    prize.stage = "awarded" =>
        LET n == Len(prize.awarded)
        IN  /\ n = Min(3, prize.c)
            /\ \A k \in 1..n :
                   \E i \in 1..n :
                      /\ prize.awarded[i].winner_obj.telegram_id = k
                      /\ prize.awarded[i].rank = <<"1st", "2nd", "3rd">>[n + 1 - k]
                      /\ \A j \in 1..n :
                            prize.awarded[j].winner_obj.telegram_id = k => j = i

\* C31 witness: of three participants or more, the first of the shuffled list
\* has the 3rd prize and the third has the 1st
C31_Witness ==
    /\ prize.stage = "awarded"
    /\ prize.c >= 3
    /\ \E i, j \in DOMAIN prize.awarded :
          /\ prize.awarded[i].winner_obj.telegram_id = 1
          /\ prize.awarded[i].rank = "3rd"
          /\ prize.awarded[j].winner_obj.telegram_id = 3
          /\ prize.awarded[j].rank = "1st"

\* C32: the payout document inserted for a winner carries the winner's
\* registered UPI id, and "Not set", the value the reminder query selects, when
\* the winner has registered none
C32_PayoutDestination ==
    [][\A t \in Tasks :
            (task[t].pc = "payout" /\ task'[t] # task[t])
               => LET u == task[t].order[task[t].i].winner_obj.telegram_id
                      registered == users[u].exists /\ users[u].upi_id \in UpiIds
                  IN  \E d \in BagToSet(payouts') :
                         /\ CopiesIn(d, payouts') > CopiesIn(d, payouts)
                         /\ d.user_telegram_id = u
                         /\ d.upi_id = IF registered THEN users[u].upi_id ELSE NOT_SET
                         /\ ~registered => d \in winners_to_remind'
      ]_vars

\* C33: the stored participants of a pot document change only by a successful
\* claim, which appends the claimant's entry; every other step, close and
\* reveal with its shuffle and its choice of winners included, leaves them as
\* they are
C33_ParticipantsAppendOnly ==
    [][\A p \in PotIds :
            (/\ pots[p].status \in Live /\ pots'[p].status \in Live
             /\ pots'[p].participants # pots[p].participants)
               => \E u \in Users :
                     /\ h[u].pc = "claim" /\ h'[u].pc = "debit"
                     /\ h[u].pot = p
                     /\ ClaimFilter(p, u, h[u].code)
                     /\ pots'[p].participants =
                            Append(pots[p].participants,
                                   [telegram_id |-> u, ticket_code |-> h[u].code])
      ]_vars

\* C33 witness: a pot of two participants is revealed, the winner of the 1st
\* prize is the participant stored last, and the stored list is in the order of
\* the purchases still
C33_Witness ==
    \E p \in PotIds :
        /\ pots[p].status = "revealed"
        /\ Len(pots[p].participants) = 2
        /\ Len(pots[p].winners) = 2
        /\ pots[p].winners[1].telegram_id = pots[p].participants[2].telegram_id
        /\ pots[p].participants[1].telegram_id = 2
        /\ users[2].last_ticket_code = pots[p].participants[1].ticket_code

\* C40: a referrer is credited for a referred user at most once: the user is
\* in the referrer's list at most once, and the referrer's count and bonus are
\* those of one credit
C40_ReferralCreditedOnce ==
    \A r, u \in Users :
        users[u].referred_by = r =>
            /\ Cardinality({i \in DOMAIN users[r].referred_users_tickets :
                               users[r].referred_users_tickets[i] = u}) <= 1
            /\ users[r].referral_count <= 1
            /\ users[r].bonus_balance <= BonusOptions_10

\* C34: a purchase whose claim fails changes nothing: the step that reads the
\* user and the pot and the claim that fails leave every pot (participants,
\* total_tickets), every user document (the buyer's balances and
\* last_ticket_code, the referrer's bonus, count and list), the tickets and
\* the payouts as they are
C34_FailedClaimChangesNothing ==
    [][\A u \in Users :
            (\/ h[u].pc = "choosing_bonus" /\ h'[u] # h[u]
             \/ h[u].pc = "claim" /\ h'[u].pc = "idle"
             \/ h2[u].pc = "claim" /\ h2'[u].pc = "idle")
               => /\ pots' = pots
                  /\ users' = users
                  /\ tickets' = tickets
                  /\ payouts' = payouts
      ]_vars

\* C34 witness: a referred buyer holds a ticket of the open pot, the referrer
\* is still to be credited for it, and the buyer's second click is about to
\* claim in the same pot, where it fails
C34_Witness ==
    \E u \in Users :
        /\ users[u].referred_by # NoUser
        /\ h[u].pc = "ref_credit"
        /\ h2[u].pc = "claim"
        /\ h2[u].pot = h[u].pot
        /\ pots[h2[u].pot].status = "open"
        /\ u \in ParticipantUsers(h2[u].pot)
        /\ users[u].real_balance = DEFAULT_TICKET_PRICE

\* C35: the winners stored for a pot are entries of its participants, one
\* entry each: no user and no ticket code has two ranks, no rank is given
\* twice, and every winner's user and code are those of one purchase in the pot
C35_WinnersDistinctParticipants ==
    \A p \in PotIds :
        LET w == pots[p].winners
        IN  /\ \A i \in DOMAIN w :
                  \E k \in DOMAIN pots[p].participants :
                      /\ pots[p].participants[k].telegram_id = w[i].telegram_id
                      /\ pots[p].participants[k].ticket_code = w[i].ticket_code
            /\ \A i, j \in DOMAIN w :
                  i # j => /\ w[i].telegram_id # w[j].telegram_id
                           /\ w[i].ticket_code # w[j].ticket_code
                           /\ w[i].rank # w[j].rank

\* C35 witness: a revealed pot whose 1st prize went to the first buyer and
\* whose 2nd prize went to the second, each with the code bought
C35_Witness ==
    \E p \in PotIds :
        /\ pots[p].status = "revealed"
        /\ Len(pots[p].winners) = 2
        /\ \A i \in 1..2 :
              /\ pots[p].winners[i].telegram_id = pots[p].participants[i].telegram_id
              /\ pots[p].winners[i].ticket_code = pots[p].participants[i].ticket_code
        /\ pots[p].winners[1].rank = "1st"
        /\ pots[p].winners[2].rank = "2nd"

\* C36: while no purchase handler of a user is running, the user has paid for
\* every pot the user is a participant of: what has left the wallet (the
\* balance the user started with, plus the refunds, minus what the wallet
\* holds) is the sum of the ticket prices of those pots
C36_ClaimPaid ==
    \A u \in Users :
        (h[u].pc = "idle" /\ h2[u].pc = "idle" /\ users[u].exists) =>
            LET price[n \in 0..MaxPots] ==
                    IF n = 0 THEN 0
                    ELSE price[n - 1] +
                         (IF Exists(n) /\ u \in ParticipantUsers(n)
                          THEN pots[n].ticket_price ELSE 0)
                refunds[n \in 0..MaxPots] ==
                    IF n = 0 THEN 0 ELSE refunds[n - 1] + refundTotal[n][u]
            IN  DEFAULT_TICKET_PRICE + refunds[MaxPots]
                   - (users[u].real_balance + users[u].bonus_balance)
                = price[MaxPots]

\* C37: a purchase followed by the refund of the pot leaves the buyer's money
\* as it was: once a pot is revealed without winners and no refund loop is
\* running, the real and the bonus balance of each of its participants add up
\* to what the participant had before buying
C37_PurchaseRefundNeutral ==
    \A p \in PotIds : \A u \in Users :
        (/\ pots[p].status = "revealed"
         /\ pots[p].winners = <<>>
         /\ Len(pots[p].participants) < 2
         /\ u \in ParticipantUsers(p)
         /\ users[u].exists
         /\ h[u].pc = "idle"
         /\ \A t \in Tasks : task[t].pc # "refund")
            => users[u].real_balance + users[u].bonus_balance = DEFAULT_TICKET_PRICE

\* C38: no ticket is sold at or after the pot's end_time: whenever a pot gains
\* a participant, the clock is strictly before the end_time of that pot
C38_NoSaleAfterEnd ==
    [][\A p \in PotIds :
          (/\ pots[p].status \in Live
           /\ pots'[p].status \in Live
           /\ Len(pots'[p].participants) > Len(pots[p].participants))
              => now < pots[p].end_time]_vars

\* C39: a pot with a participant is not deleted before it is resolved: when a
\* pot document is removed, it has no participant, or it holds the winners of
\* its draw, or each of its participants has been refunded for it
C39_NoUnresolvedPotDeleted ==
    [][\A p \in PotIds :
          (/\ pots[p].status \in Live
           /\ pots'[p].status = "deleted"
           /\ pots[p].participants # <<>>)
              => \/ pots[p].winners # <<>>
                 \/ \A u \in ParticipantUsers(p) : refundTotal[p][u] > 0]_vars

====
